---- MODULE Spec2Model ----
(***************************************************************************)
(* Model of hmgpt_explore.py: the standardized-patient dialogue loop, the  *)
(* transcript renderer, the line wrapper and the post-session evaluation   *)
(* chain.  Text is modelled as a sequence of one-character strings, so the *)
(* string operations of the script (lower, replace, strip, rfind, slicing, *)
(* concatenation) are computed character by character.                     *)
(***************************************************************************)
EXTENDS Naturals, Integers, Sequences, FiniteSets, TLC

VARIABLES
  pc,             \* position of the script
  patient,        \* the scenario returned by choose_patient (line 202)
  user_input,     \* last line returned by input() (lines 227, 261)
  talk_hx,        \* the talk history (line 213)
  reply,          \* last reply text received (lines 246, 281, 295, 311)
  requests,       \* message lists sent by the dialogue loop (line 241)
  eval_requests,  \* message lists sent by the evaluation (lines 278, 292, 308)
  eval_replies,   \* replies received by the evaluation, in order
  transcript,     \* result of get_transcript (line 267)
  stdout,         \* chunks written to the console, one per print/prompt
  gpt_summary,    \* line 282
  compare_response, \* line 305
  error,          \* uncaught exception that ended the process, or "none"
  hx_before,      \* talk_hx as it was when the current input was read
  patients_arg,   \* choose_patient: the parameter patients (line 100)
  l_arg,          \* split_string: the parameter l (line 43)
  LINE_LENGTH_arg, \* split_string: the parameter LINE_LENGTH (line 43)
  ret_strings,    \* split_string: the local ret_strings (line 63)
  remaining       \* split_string: the local remaining (line 64)

\* parameters and locals of a function that is called on its own
fn_vars == << patients_arg, l_arg, LINE_LENGTH_arg, ret_strings, remaining >>

vars == << pc, patient, user_input, talk_hx, reply, requests, eval_requests,
           eval_replies, transcript, stdout, gpt_summary, compare_response,
           error, hx_before, fn_vars >>

----------------------------------------------------------------------------
(* Bounds *)

\* number of dialogue turns explored
MaxTurns == 2

----------------------------------------------------------------------------
(* Literal texts of the script *)

\* line 12
end_keyword ==
  << "d", "o", "n", "e" >>

\* line 187
StudentPrefix ==
  << "S", "t", "u", "d", "e", "n", "t", ":", " " >>

\* line 189
PatientPrefix ==
  << "P", "a", "t", "i", "e", "n", "t", ":", " " >>

\* lines 187, 189
BlankLine ==
  << "\n", "\n" >>

\* line 227
InputPrompt0 ==
  << "(", "Y", "o", "u", ")", " ", ">", ">", ">", " " >>

\* line 261
InputPrompt ==
  << "\n", "(", "Y", "o", "u", ")", " ", ">", ">", ">", " " >>

\* line 257: print("(Patient):", end=" ")
PatientLabel ==
  << "(", "P", "a", "t", "i", "e", "n", "t", ")", ":", " " >>

\* lines 269-273
PonderText ==
  << "\n", ".", " ", ".", " ", ".", " ", "Y", "o", "u", " ", "c", "l", "o",
     "s", "e", " ", "y", "o", "u", "r", " ", "e", "y", "e", "s", ",", " ",
     "a", "n", "d", " ", "p", "o", "n", "d", "e", "r", " ", "t", "h", "e",
     " ", "m", "e", "m", "o", "r", "y", " ", "o", "f", " ", "t", "h", "i",
     "s", " ", "c", "o", "n", "v", "e", "r", "s", "a", "t", "i", "o", "n",
     ".", ".", ".", "\n", "\n" >>

\* line 275
EvalFramingText ==
  << "S", "u", "m", "m", "a", "r", "i", "z", "e", " ", "t", "h", "e", " ",
     "f", "o", "l", "l", "o", "w", "i", "n", "g", " ", "i", "n", "t", "e",
     "r", "a", "c", "t", "i", "o", "n", " ", "b", "e", "t", "w", "e", "e",
     "n", " ", "a", " ", "m", "e", " ", "a", "n", "d", " ", "a", " ", "s",
     "t", "a", "n", "d", "a", "r", "d", "i", "z", "e", "d", " ", "p", "a",
     "t", "i", "e", "n", "t", "." >>

\* line 284
SummaryHeader ==
  << "-", "-", "-", " ", "S", "U", "M", "M", "A", "R", "Y", " ", "O", "F",
     " ", "T", "H", "I", "S", " ", "I", "N", "T", "E", "R", "A", "C", "T",
     "I", "O", "N", " ", "-", "-", "-", "\n" >>

\* line 288
ComparePrefix ==
  << "T", "h", "e", " ", "a", "c", "t", "u", "a", "l", " ", "p", "a", "t",
     "i", "e", "n", "t", " ", "s", "u", "m", "m", "a", "r", "y", " ", "i",
     "s", " ", "a", "s", " ", "f", "o", "l", "l", "o", "w", "s", ":", " ",
     " " >>

\* line 290
CompareSuffix ==
  << " ", "H", "o", "w", " ", "d", "o", "e", "s", " ", "t", "h", "e", " ",
     "s", "t", "u", "d", "e", "n", "t", " ", "i", "n", "t", "e", "r", "a",
     "c", "t", "i", "o", "n", " ", "c", "o", "m", "p", "a", "r", "e", " ",
     "w", "i", "t", "h", " ", "t", "h", "e", " ", "a", "c", "t", "u", "a",
     "l", " ", "p", "a", "t", "i", "e", "n", "t", " ", "s", "u", "m", "m",
     "a", "r", "y", "?" >>

\* line 297
CurtainHeader ==
  << "=", "=", "=", " ", "B", "E", "H", "I", "N", "D", " ", "T", "H", "E",
     " ", "C", "U", "R", "T", "A", "I", "N", "=", "=", "=", "\n" >>

\* line 301
EvaluationHeader ==
  << "-", "-", "-", " ", "E", "v", "a", "l", "u", "a", "t", "i", "o", "n",
     " ", "-", "-", "-", "\n" >>

\* line 306
FinalQuestionText ==
  << "A", "n", "s", "w", "e", "r", " ", "o", "n", "l", "y", " ", "'", "y",
     "e", "s", "'", " ", "o", "r", " ", "'", "n", "o", "'", ",", " ", "w",
     "a", "s", " ", "t", "h", "e", " ", "s", "t", "u", "d", "e", "n", "t",
     " ", "i", "n", "t", "e", "r", "a", "c", "t", "i", "o", "n", " ", "c",
     "o", "n", "s", "i", "s", "t", "e", "n", "t", " ", "w", "i", "t", "h",
     " ", "t", "h", "e", " ", "a", "c", "t", "u", "a", "l", " ", "p", "a",
     "t", "i", "e", "n", "t", " ", "s", "u", "m", "m", "a", "r", "y", "?" >>

\* line 313
PassHeader ==
  << "-", "-", "-", " ", "P", "a", "s", "s", "?", " ", "-", "-", "-",
     "\n" >>

\* end of a print() call
NL ==
  << "\n" >>

----------------------------------------------------------------------------
(* Program constants *)

\* default of split_string's LINE_LENGTH parameter
LINE_LENGTH == 80

Whitespace == {" ", "\t", "\n", "\r"}

\* str.lower() on one character
LowerChar(c) ==
  CASE c = "A" -> "a" [] c = "B" -> "b" [] c = "C" -> "c" [] c = "D" -> "d"
    [] c = "E" -> "e" [] c = "F" -> "f" [] c = "G" -> "g" [] c = "H" -> "h"
    [] c = "I" -> "i" [] c = "J" -> "j" [] c = "K" -> "k" [] c = "L" -> "l"
    [] c = "M" -> "m" [] c = "N" -> "n" [] c = "O" -> "o" [] c = "P" -> "p"
    [] c = "Q" -> "q" [] c = "R" -> "r" [] c = "S" -> "s" [] c = "T" -> "t"
    [] c = "U" -> "u" [] c = "V" -> "v" [] c = "W" -> "w" [] c = "X" -> "x"
    [] c = "Y" -> "y" [] c = "Z" -> "z" [] OTHER -> c

\* str.lower()
Lower(s) == [i \in 1..Len(s) |-> LowerChar(s[i])]

\* str.replace(old, new) for a one-character old
RECURSIVE Replace(_, _, _)
Replace(s, old, new) ==
  IF s = << >> THEN << >>
  ELSE (IF Head(s) = old THEN new ELSE << Head(s) >>)
         \o Replace(Tail(s), old, new)

\* str.strip(chars): drop leading and trailing characters of the set chars
StripChars(s, chars) ==
  LET keep == {i \in 1..Len(s) : s[i] \notin chars}
  IN  IF keep = {} THEN << >>
      ELSE LET lo == CHOOSE i \in keep : \A j \in keep : i <= j
               hi == CHOOSE i \in keep : \A j \in keep : j <= i
           IN  SubSeq(s, lo, hi)

\* str.strip(): drop leading and trailing whitespace
Strip(s) == StripChars(s, Whitespace)

\* variant: the comparison is case-sensitive
Normalize_NoLower(s) == Strip(Replace(Replace(s, "\"", << >>), "'", << >>))

\* variant: quotes are stripped at the two ends only
Normalize_EndsOnly(s) == StripChars(Lower(s), Whitespace \cup {"\"", "'"})

\* the expression compared with end_keyword in the while-condition
Normalize(s) == Strip(Replace(Replace(Lower(s), "\"", << >>), "'", << >>))

\* the while-condition: TRUE when the loop body runs
LoopCondition(s) == Normalize(s) # end_keyword

----------------------------------------------------------------------------
(* Messages *)

new_conversation(system_content) ==
  << [role |-> "system", content |-> system_content] >>

user_line(text) == << [role |-> "user", content |-> text] >>

asst_line(text) == << [role |-> "assistant", content |-> text] >>

\* variant: only assistant messages are attributed to the patient
TranscriptLine_AssistantTest(line) ==
  IF line.role = "assistant"
    THEN PatientPrefix \o line.content \o BlankLine
    ELSE StudentPrefix \o line.content \o BlankLine

\* one line of the transcript
TranscriptLine(line) ==
  IF line.role = "user"
    THEN StudentPrefix \o line.content \o BlankLine
    ELSE PatientPrefix \o line.content \o BlankLine

RECURSIVE get_transcript(_)
get_transcript(hx) ==
  IF hx = << >> THEN << >>
  ELSE TranscriptLine(Head(hx)) \o get_transcript(Tail(hx))

----------------------------------------------------------------------------
(* Line wrapper *)

\* str.rfind(" ") on s, as a 1-based position; 0 stands for Python's -1
RFindSpace(s) ==
  LET at == {i \in 1..Len(s) : s[i] = " "}
  IN  IF at = {} THEN 0 ELSE CHOOSE i \in at : \A j \in at : j <= i

\* variant: the slice is one character short
Prefix_OneShort(s, n) ==
  SubSeq(s, 1, IF n - 1 < Len(s) THEN n - 1 ELSE Len(s))

\* remaining[:n]; a negative n counts from the end of the string
Prefix(s, n) ==
  IF n >= 0 THEN SubSeq(s, 1, IF n < Len(s) THEN n ELSE Len(s))
  ELSE IF Len(s) + n > 0 THEN SubSeq(s, 1, Len(s) + n) ELSE << >>

\* the while loop of split_string; raised = TRUE stands for the ValueError
RECURSIVE SplitLoop(_, _, _)
SplitLoop(ret, rest, L) ==
  IF Len(rest) > L - 1
    THEN LET split == RFindSpace(Prefix(rest, L))
         IN  IF split = 0
               THEN [raised |-> TRUE, lines |-> ret]
               ELSE SplitLoop(Append(ret, SubSeq(rest, 1, split - 1)),
                              SubSeq(rest, split + 1, Len(rest)), L)
    ELSE [raised |-> FALSE, lines |-> Append(ret, rest)]

split_string(text, L) == SplitLoop(<< >>, text, L)

----------------------------------------------------------------------------
(* Scenarios *)

\* the scenario list returned by get_patients
patients ==
  << [id |-> << "p", "1" >>, framing |-> << "f", "1" >>,
      reminders |-> << "r", "1" >>, summary |-> << "s", "1" >>, prob_wt |-> 10],
     [id |-> << "p", "2" >>, framing |-> << "f", "2" >>,
      reminders |-> << "r", "2" >>, summary |-> << "s", "2" >>, prob_wt |-> 0],
     [id |-> << "p", "3" >>, framing |-> << "f", "3" >>,
      reminders |-> << "r", "3" >>, summary |-> << "s", "3" >>, prob_wt |-> 20] >>

\* itertools.accumulate(weights): the sum of the first i weights
RECURSIVE CumWeight(_, _)
CumWeight(ps, i) == IF i = 0 THEN 0 ELSE CumWeight(ps, i - 1) + ps[i].prob_wt

\* variant: bisect_left, the number of cumulative weights below x
BisectCumWeights_Left(ps, x) ==
  Cardinality({i \in 1..(Len(ps) - 1) : CumWeight(ps, i) < x})

\* bisect(cum_weights, x, 0, hi) with hi = n - 1: the number of cumulative
\* weights, the last one left out, that are not above x
BisectCumWeights(ps, x) ==
  Cardinality({i \in 1..(Len(ps) - 1) : CumWeight(ps, i) <= x})

\* random.choices raises: no population, or (Python 3.9 on) no weight
ChoicesMayRaise(ps) == Len(ps) = 0 \/ CumWeight(ps, Len(ps)) <= 0

\* the scenarios choose_patient can return: random() * total lies in
\* [k, k + 1) for some k below the total weight, and with whole weights the
\* bisection gives the same index for all of that interval; with a total of
\* zero an interpreter older than 3.9 returns the last scenario
choose_patient(ps) ==
  IF Len(ps) = 0 THEN {}
  ELSE IF CumWeight(ps, Len(ps)) <= 0 THEN {ps[Len(ps)]}
  ELSE {ps[BisectCumWeights(ps, k) + 1] : k \in 0..(CumWeight(ps, Len(ps)) - 1)}

talk_framing == new_conversation(patient.framing)

talk_reminders == user_line(patient.reminders)

\* variant: the reminder is left out of the request
RequestMessages_NoReminder(hx) == talk_framing \o hx

\* line 242: the messages argument of the dialogue request
RequestMessages(hx) == talk_framing \o hx \o talk_reminders

----------------------------------------------------------------------------
(* Inputs and replies explored *)

In_hi ==
  << "h", "i" >>

In_empty ==
  << >>

In_done ==
  << "d", "o", "n", "e" >>

In_Done ==
  << "D", "o", "n", "e" >>

In_quoted_padded ==
  << " ", "\"", "d", "o", "n", "e", "\"", " " >>

In_sq_upper ==
  << "'", "D", "O", "N", "E", "'" >>

In_twice ==
  << "d", "o", "n", "e", " ", "d", "o", "n", "e" >>

In_interior ==
  << "d", "o", "'", "n", "e" >>

Re_ok ==
  << "o", "k" >>

Re_yes ==
  << "y", "e", "s" >>

Re_maybe ==
  << "m", "a", "y", "b", "e" >>

\* a reply that needs wrapping: 50 letters, a space, 40 letters
Re_wrap == [i \in 1..91 |-> IF i = 51 THEN " " ELSE IF i < 51 THEN "a" ELSE "b"]

\* a reply with no space in its first LINE_LENGTH characters
Re_long == [i \in 1..LINE_LENGTH |-> "x"]

Inputs ==
  {In_hi, In_empty, In_twice, In_done, In_Done, In_quoted_padded,
   In_sq_upper, In_interior}

Replies == {Re_ok, Re_wrap, Re_long}

EvalReplies == {Re_yes, Re_maybe}

----------------------------------------------------------------------------
(* The script *)

\* the script stands at the first input() (line 227); stdout records what is
\* written from that prompt on, the banner of lines 204-224 is left out
Init ==
  /\ pc = "await_input"
  /\ patient \in choose_patient(patients)
  /\ user_input = << >>
  /\ talk_hx = << >>
  /\ reply = << >>
  /\ requests = << >>
  /\ eval_requests = << >>
  /\ eval_replies = << >>
  /\ transcript = << >>
  /\ stdout = << InputPrompt0 >>
  /\ gpt_summary = << >>
  /\ compare_response = << >>
  /\ error = "none"
  /\ hx_before = << >>
  /\ patients_arg = << >>
  /\ l_arg = << >>
  /\ LINE_LENGTH_arg = LINE_LENGTH
  /\ ret_strings = << >>
  /\ remaining = << >>

\* lines 227 / 261 return a line, and the while-condition of line 230
ReadInput(text) ==
  /\ pc = "await_input"
  /\ LoopCondition(text) => Len(talk_hx) < 2 * MaxTurns
  /\ user_input' = text
  /\ hx_before' = talk_hx
  /\ pc' = IF LoopCondition(text) THEN "loop_body" ELSE "terminated"
  /\ UNCHANGED << patient, talk_hx, reply, requests, eval_requests,
                  eval_replies, transcript, stdout, gpt_summary,
                  compare_response, error >>
  /\ UNCHANGED fn_vars

\* variant: the history is restarted from the new line
RecordUser_Overwrite ==
  /\ pc = "loop_body"
  /\ talk_hx' = user_line(user_input)
  /\ pc' = "send"
  /\ UNCHANGED << patient, user_input, reply, requests, eval_requests,
                  eval_replies, transcript, stdout, gpt_summary,
                  compare_response, error, hx_before >>
  /\ UNCHANGED fn_vars

\* lines 233-236
RecordUser ==
  /\ pc = "loop_body"
  /\ talk_hx' = talk_hx \o user_line(user_input)
  /\ pc' = "send"
  /\ UNCHANGED << patient, user_input, reply, requests, eval_requests,
                  eval_replies, transcript, stdout, gpt_summary,
                  compare_response, error, hx_before >>
  /\ UNCHANGED fn_vars

\* variant: the reminder is stored in the history before the request leaves
SendRequest_StoresReminder ==
  /\ pc = "send"
  /\ talk_hx' = talk_hx \o talk_reminders
  /\ requests' = Append(requests, talk_framing \o talk_hx')
  /\ pc' = "generating"
  /\ UNCHANGED << patient, user_input, reply, eval_requests,
                  eval_replies, transcript, stdout, gpt_summary,
                  compare_response, error, hx_before >>
  /\ UNCHANGED fn_vars

\* variant: the request is built from the history without the new line
SendRequest_BeforeRecord ==
  /\ pc = "send"
  /\ requests' = Append(requests, RequestMessages(hx_before))
  /\ pc' = "generating"
  /\ UNCHANGED << patient, user_input, talk_hx, reply, eval_requests,
                  eval_replies, transcript, stdout, gpt_summary,
                  compare_response, error, hx_before >>
  /\ UNCHANGED fn_vars

\* lines 241-243: the request leaves
SendRequest ==
  /\ pc = "send"
  /\ requests' = Append(requests, RequestMessages(talk_hx))
  /\ pc' = "generating"
  /\ UNCHANGED << patient, user_input, talk_hx, reply, eval_requests,
                  eval_replies, transcript, stdout, gpt_summary,
                  compare_response, error, hx_before >>
  /\ UNCHANGED fn_vars

\* lines 241-246: the call returns a reply
ReceiveReply(text) ==
  /\ pc = "generating"
  /\ reply' = text
  /\ pc' = "record_reply"
  /\ UNCHANGED << patient, user_input, talk_hx, requests, eval_requests,
                  eval_replies, transcript, stdout, gpt_summary,
                  compare_response, error, hx_before >>
  /\ UNCHANGED fn_vars

\* line 241: the call raises; nothing catches it and the process ends
GenerationFails ==
  /\ pc = "generating"
  /\ error' = "APIError"
  /\ pc' = "crashed"
  /\ UNCHANGED << patient, user_input, talk_hx, reply, requests,
                  eval_requests, eval_replies, transcript, stdout,
                  gpt_summary, compare_response, hx_before >>
  /\ UNCHANGED fn_vars

\* line 249
RecordAssistant ==
  /\ pc = "record_reply"
  /\ talk_hx' = talk_hx \o asst_line(reply)
  /\ pc' = "display"
  /\ UNCHANGED << patient, user_input, reply, requests, eval_requests,
                  eval_replies, transcript, stdout, gpt_summary,
                  compare_response, error, hx_before >>
  /\ UNCHANGED fn_vars

\* the chunks written by print(l) for each l of lines
PrintLines(lines) == [i \in 1..Len(lines) |-> lines[i] \o NL]

\* lines 254-261: wrap, display, prompt for the next input
DisplayReply ==
  /\ pc = "display"
  /\ LET reply_split == split_string(reply, LINE_LENGTH)
     IN  IF reply_split.raised
           THEN /\ error' = "ValueError"
                /\ pc' = "crashed"
                /\ UNCHANGED stdout
           ELSE /\ stdout' = stdout \o << PatientLabel >>
                               \o PrintLines(reply_split.lines)
                               \o << InputPrompt >>
                /\ pc' = "await_input"
                /\ UNCHANGED error
  /\ UNCHANGED << patient, user_input, talk_hx, reply, requests,
                  eval_requests, eval_replies, transcript, gpt_summary,
                  compare_response, hx_before >>
  /\ UNCHANGED fn_vars

----------------------------------------------------------------------------
(* Evaluation of the student's performance *)

eval_setup == new_conversation(EvalFramingText)

eval_transcript == user_line(transcript)

eval_summary == user_line(ComparePrefix \o patient.summary \o CompareSuffix)

final_question == user_line(FinalQuestionText)

\* variant: the terminating input is rendered as a last user line
RenderTranscript_WithLastInput ==
  /\ pc = "terminated"
  /\ transcript' = get_transcript(talk_hx \o user_line(user_input))
  /\ stdout' = Append(stdout, PonderText)
  /\ pc' = "eval1_send"
  /\ UNCHANGED << patient, user_input, talk_hx, reply, requests,
                  eval_requests, eval_replies, gpt_summary, compare_response,
                  error, hx_before >>
  /\ UNCHANGED fn_vars

\* lines 267-273
RenderTranscript ==
  /\ pc = "terminated"
  /\ transcript' = get_transcript(talk_hx)
  /\ stdout' = Append(stdout, PonderText)
  /\ pc' = "eval1_send"
  /\ UNCHANGED << patient, user_input, talk_hx, reply, requests,
                  eval_requests, eval_replies, gpt_summary, compare_response,
                  error, hx_before >>
  /\ UNCHANGED fn_vars

\* lines 275-280: the summarize request leaves
EvalSend1 ==
  /\ pc = "eval1_send"
  /\ eval_requests' = Append(eval_requests, eval_setup \o eval_transcript)
  /\ pc' = "eval1_wait"
  /\ UNCHANGED << patient, user_input, talk_hx, reply, requests, eval_replies,
                  transcript, stdout, gpt_summary, compare_response, error,
                  hx_before >>
  /\ UNCHANGED fn_vars

\* lines 281, 295, 311: an evaluation call returns a reply
EvalReceive(text) ==
  /\ pc \in {"eval1_wait", "eval2_wait", "eval3_wait"}
  /\ reply' = text
  /\ eval_replies' = Append(eval_replies, text)
  /\ pc' = CASE pc = "eval1_wait" -> "eval1_show"
             [] pc = "eval2_wait" -> "eval2_show"
             [] pc = "eval3_wait" -> "eval3_show"
  /\ UNCHANGED << patient, user_input, talk_hx, requests, eval_requests,
                  transcript, stdout, gpt_summary, compare_response, error,
                  hx_before >>
  /\ UNCHANGED fn_vars

\* lines 278, 292, 308: an evaluation call raises; the process ends
EvalFails ==
  /\ pc \in {"eval1_wait", "eval2_wait", "eval3_wait"}
  /\ error' = "APIError"
  /\ pc' = "crashed"
  /\ UNCHANGED << patient, user_input, talk_hx, reply, requests,
                  eval_requests, eval_replies, transcript, stdout,
                  gpt_summary, compare_response, hx_before >>
  /\ UNCHANGED fn_vars

\* lines 282-286
EvalShow1 ==
  /\ pc = "eval1_show"
  /\ gpt_summary' = asst_line(reply)
  /\ stdout' = stdout \o << SummaryHeader, reply \o NL, NL >>
  /\ pc' = "eval2_send"
  /\ UNCHANGED << patient, user_input, talk_hx, reply, requests,
                  eval_requests, eval_replies, transcript, compare_response,
                  error, hx_before >>
  /\ UNCHANGED fn_vars

\* lines 288-294: the compare request leaves
EvalSend2 ==
  /\ pc = "eval2_send"
  /\ eval_requests' = Append(eval_requests,
        eval_setup \o eval_transcript \o gpt_summary \o eval_summary)
  /\ pc' = "eval2_wait"
  /\ UNCHANGED << patient, user_input, talk_hx, reply, requests, eval_replies,
                  transcript, stdout, gpt_summary, compare_response, error,
                  hx_before >>
  /\ UNCHANGED fn_vars

\* lines 297-305
EvalShow2 ==
  /\ pc = "eval2_show"
  /\ stdout' = stdout \o << CurtainHeader, patient.summary \o NL, NL,
                            EvaluationHeader, reply \o NL, NL >>
  /\ compare_response' = asst_line(reply)
  /\ pc' = "eval3_send"
  /\ UNCHANGED << patient, user_input, talk_hx, reply, requests,
                  eval_requests, eval_replies, transcript, gpt_summary, error,
                  hx_before >>
  /\ UNCHANGED fn_vars

\* variant: the verdict request leaves out the summary exchange
EvalSend3_NoSummaryExchange ==
  /\ pc = "eval3_send"
  /\ eval_requests' = Append(eval_requests,
        eval_setup \o eval_transcript \o compare_response \o final_question)
  /\ pc' = "eval3_wait"
  /\ UNCHANGED << patient, user_input, talk_hx, reply, requests, eval_replies,
                  transcript, stdout, gpt_summary, compare_response, error,
                  hx_before >>
  /\ UNCHANGED fn_vars

\* lines 306-310: the verdict request leaves
EvalSend3 ==
  /\ pc = "eval3_send"
  /\ eval_requests' = Append(eval_requests,
        eval_setup \o eval_transcript \o gpt_summary \o eval_summary
          \o compare_response \o final_question)
  /\ pc' = "eval3_wait"
  /\ UNCHANGED << patient, user_input, talk_hx, reply, requests, eval_replies,
                  transcript, stdout, gpt_summary, compare_response, error,
                  hx_before >>
  /\ UNCHANGED fn_vars

\* variant: the verdict is shown only when it is the expected answer
EvalShow3_YesOnly ==
  /\ pc = "eval3_show"
  /\ stdout' = stdout \o (IF reply = Re_yes THEN << PassHeader, reply \o NL, NL >>
                                            ELSE << PassHeader, NL >>)
  /\ pc' = "done"
  /\ UNCHANGED << patient, user_input, talk_hx, reply, requests,
                  eval_requests, eval_replies, transcript, gpt_summary,
                  compare_response, error, hx_before >>
  /\ UNCHANGED fn_vars

\* lines 313-315
EvalShow3 ==
  /\ pc = "eval3_show"
  /\ stdout' = stdout \o << PassHeader, reply \o NL, NL >>
  /\ pc' = "done"
  /\ UNCHANGED << patient, user_input, talk_hx, reply, requests,
                  eval_requests, eval_replies, transcript, gpt_summary,
                  compare_response, error, hx_before >>
  /\ UNCHANGED fn_vars

----------------------------------------------------------------------------

Next ==
  \/ \E text \in Inputs : ReadInput(text)
  \/ RecordUser
  \/ SendRequest
  \/ \E text \in Replies : ReceiveReply(text)
  \/ GenerationFails
  \/ RecordAssistant
  \/ DisplayReply
  \/ RenderTranscript
  \/ EvalSend1
  \/ \E text \in EvalReplies : EvalReceive(text)
  \/ EvalFails
  \/ EvalShow1
  \/ EvalSend2
  \/ EvalShow2
  \/ EvalSend3
  \/ EvalShow3

Spec == Init /\ [][Next]_vars

----------------------------------------------------------------------------
(* get_transcript on its own: any history of bounded length, any roles *)

\* longest history handed to get_transcript
MaxHx == 2

Roles == {"system", "user", "assistant"}

Contents == {In_hi, Re_ok, In_empty}

Histories ==
  UNION {[1..n -> [role : Roles, content : Contents]] : n \in 0..MaxHx}

TranscriptInit ==
  /\ pc = "call_get_transcript"
  /\ patient \in choose_patient(patients)
  /\ talk_hx \in Histories
  /\ hx_before = talk_hx
  /\ user_input = << >>
  /\ reply = << >>
  /\ requests = << >>
  /\ eval_requests = << >>
  /\ eval_replies = << >>
  /\ transcript = << >>
  /\ stdout = << >>
  /\ gpt_summary = << >>
  /\ compare_response = << >>
  /\ error = "none"
  /\ patients_arg = << >>
  /\ l_arg = << >>
  /\ LINE_LENGTH_arg = LINE_LENGTH
  /\ ret_strings = << >>
  /\ remaining = << >>

\* line 267: transcript = get_transcript(talk_hx)
CallGetTranscript ==
  /\ pc = "call_get_transcript"
  /\ transcript' = get_transcript(talk_hx)
  /\ pc' = "returned"
  /\ UNCHANGED << patient, user_input, talk_hx, reply, requests,
                  eval_requests, eval_replies, stdout, gpt_summary,
                  compare_response, error, hx_before >>
  /\ UNCHANGED fn_vars

TranscriptNext == CallGetTranscript

TranscriptSpec == TranscriptInit /\ [][TranscriptNext]_vars

----------------------------------------------------------------------------

----------------------------------------------------------------------------
(* split_string on its own: any text of bounded length, any width *)

\* longest text handed to split_string
MaxLen == 5

\* largest LINE_LENGTH handed to split_string
MaxWidth == 4

WrapChars == {"a", " ", "\t"}

Texts == UNION {[1..n -> WrapChars] : n \in 0..MaxLen}

Widths == (0 - 1)..MaxWidth

\* dialogue and evaluation variables while a function is called on its own
ScriptIdle ==
  /\ patient = patients[1]
  /\ user_input = << >>
  /\ talk_hx = << >>
  /\ reply = << >>
  /\ requests = << >>
  /\ eval_requests = << >>
  /\ eval_replies = << >>
  /\ transcript = << >>
  /\ stdout = << >>
  /\ gpt_summary = << >>
  /\ compare_response = << >>
  /\ hx_before = << >>

script_vars ==
  << patient, user_input, talk_hx, reply, requests, eval_requests,
     eval_replies, transcript, stdout, gpt_summary, compare_response,
     hx_before >>

WrapInit ==
  /\ pc = "call_split_string"
  /\ l_arg \in Texts
  /\ LINE_LENGTH_arg \in Widths
  /\ ret_strings = << >>
  /\ remaining = << >>
  /\ patients_arg = << >>
  /\ error = "none"
  /\ ScriptIdle

\* lines 63-64
SplitEnter ==
  /\ pc = "call_split_string"
  /\ ret_strings' = << >>
  /\ remaining' = l_arg
  /\ pc' = "split_loop"
  /\ UNCHANGED << script_vars, error, patients_arg, l_arg, LINE_LENGTH_arg >>

\* variant: the space is looked for in all of the remaining text
SplitAt_WholeText == RFindSpace(remaining)

\* line 66: the split position of this iteration, 0 when rfind returns -1
SplitAt == RFindSpace(Prefix(remaining, LINE_LENGTH_arg))

\* variant: the line stops one character early
SplitIterate_LineOneShort ==
  /\ pc = "split_loop"
  /\ Len(remaining) > LINE_LENGTH_arg - 1
  /\ SplitAt # 0
  /\ ret_strings' = Append(ret_strings, SubSeq(remaining, 1, SplitAt - 2))
  /\ remaining' = SubSeq(remaining, SplitAt + 1, Len(remaining))
  /\ UNCHANGED << script_vars, pc, error, patients_arg, l_arg,
                  LINE_LENGTH_arg >>

\* variant: the space stays at the head of the remaining text
SplitIterate_KeepsSpace ==
  /\ pc = "split_loop"
  /\ Len(remaining) > LINE_LENGTH_arg - 1
  /\ SplitAt # 0
  /\ ret_strings' = Append(ret_strings, SubSeq(remaining, 1, SplitAt - 1))
  /\ remaining' = SubSeq(remaining, SplitAt, Len(remaining))
  /\ UNCHANGED << script_vars, pc, error, patients_arg, l_arg,
                  LINE_LENGTH_arg >>

\* variant: the remaining text is stripped of the spaces at its head
SplitIterate_SkipsSpaces ==
  /\ pc = "split_loop"
  /\ Len(remaining) > LINE_LENGTH_arg - 1
  /\ SplitAt # 0
  /\ ret_strings' = Append(ret_strings, SubSeq(remaining, 1, SplitAt - 1))
  /\ LET rest == SubSeq(remaining, SplitAt + 1, Len(remaining))
         keep == {i \in 1..Len(rest) : rest[i] # " "}
     IN  remaining' =
           IF keep = {} THEN << >>
           ELSE SubSeq(rest, CHOOSE i \in keep : \A j \in keep : i <= j,
                       Len(rest))
  /\ UNCHANGED << script_vars, pc, error, patients_arg, l_arg,
                  LINE_LENGTH_arg >>

\* lines 65-71: an iteration that finds a space
SplitIterate ==
  /\ pc = "split_loop"
  /\ Len(remaining) > LINE_LENGTH_arg - 1
  /\ SplitAt # 0
  /\ ret_strings' = Append(ret_strings, SubSeq(remaining, 1, SplitAt - 1))
  /\ remaining' = SubSeq(remaining, SplitAt + 1, Len(remaining))
  /\ UNCHANGED << script_vars, pc, error, patients_arg, l_arg,
                  LINE_LENGTH_arg >>

\* variant: without a space the text is cut at LINE_LENGTH
SplitRaise_HardBreak ==
  /\ pc = "split_loop"
  /\ Len(remaining) > LINE_LENGTH_arg - 1
  /\ SplitAt = 0
  /\ IF LINE_LENGTH_arg >= 1
       THEN /\ ret_strings' =
                 Append(ret_strings, Prefix(remaining, LINE_LENGTH_arg))
            /\ remaining' =
                 SubSeq(remaining, LINE_LENGTH_arg + 1, Len(remaining))
            /\ UNCHANGED << pc, error >>
       ELSE /\ error' = "ValueError"
            /\ pc' = "split_raised"
            /\ UNCHANGED << ret_strings, remaining >>
  /\ UNCHANGED << script_vars, patients_arg, l_arg, LINE_LENGTH_arg >>

\* lines 65-69: an iteration that finds no space raises ValueError
SplitRaise ==
  /\ pc = "split_loop"
  /\ Len(remaining) > LINE_LENGTH_arg - 1
  /\ SplitAt = 0
  /\ error' = "ValueError"
  /\ pc' = "split_raised"
  /\ UNCHANGED << script_vars, patients_arg, l_arg, LINE_LENGTH_arg,
                  ret_strings, remaining >>

\* lines 65, 72-73: the loop ends and the list is returned
SplitReturn ==
  /\ pc = "split_loop"
  /\ ~(Len(remaining) > LINE_LENGTH_arg - 1)
  /\ ret_strings' = Append(ret_strings, remaining)
  /\ pc' = "split_returned"
  /\ UNCHANGED << script_vars, error, patients_arg, l_arg, LINE_LENGTH_arg,
                  remaining >>

WrapNext ==
  \/ SplitEnter
  \/ SplitIterate
  \/ SplitRaise
  \/ SplitReturn

WrapSpec == WrapInit /\ [][WrapNext]_vars

----------------------------------------------------------------------------
(* choose_patient on its own: any list of bounded length and weights *)

\* longest scenario list handed to choose_patient
MaxPatients == 3

\* largest prob_wt in a scenario list
MaxWeight == 2

\* the i-th scenario of a list, with weight w
Scenario(i, w) ==
  LET digit == << "1", "2", "3", "4", "5", "6", "7", "8", "9" >>[i]
  IN  [id |-> << "p", digit >>, framing |-> << "f", digit >>,
       reminders |-> << "r", digit >>, summary |-> << "s", digit >>,
       prob_wt |-> w]

PatientLists ==
  UNION {{[i \in 1..n |-> Scenario(i, ws[i])] : ws \in [1..n -> 0..MaxWeight]} :
           n \in 0..MaxPatients}

SelectInit ==
  /\ pc = "call_choose_patient"
  /\ patients_arg \in PatientLists
  /\ patient = << >>
  /\ l_arg = << >>
  /\ LINE_LENGTH_arg = LINE_LENGTH
  /\ ret_strings = << >>
  /\ remaining = << >>
  /\ error = "none"
  /\ user_input = << >>
  /\ talk_hx = << >>
  /\ reply = << >>
  /\ requests = << >>
  /\ eval_requests = << >>
  /\ eval_replies = << >>
  /\ transcript = << >>
  /\ stdout = << >>
  /\ gpt_summary = << >>
  /\ compare_response = << >>
  /\ hx_before = << >>

\* lines 121-123: a scenario is returned
ChoosePatientReturns ==
  /\ pc = "call_choose_patient"
  /\ patient' \in choose_patient(patients_arg)
  /\ pc' = "chosen"
  /\ UNCHANGED << user_input, talk_hx, reply, requests, eval_requests,
                  eval_replies, transcript, stdout, gpt_summary,
                  compare_response, error, hx_before, fn_vars >>

\* line 122: random.choices raises
ChoosePatientRaises ==
  /\ pc = "call_choose_patient"
  /\ ChoicesMayRaise(patients_arg)
  /\ error' = IF Len(patients_arg) = 0 THEN "IndexError" ELSE "ValueError"
  /\ pc' = "choose_raised"
  /\ UNCHANGED << script_vars, fn_vars >>

SelectNext ==
  \/ ChoosePatientReturns
  \/ ChoosePatientRaises

SelectSpec == SelectInit /\ [][SelectNext]_vars

----------------------------------------------------------------------------
(* Properties *)

IsPrefix(s, t) == Len(s) <= Len(t) /\ SubSeq(t, 1, Len(s)) = s

\* positions of the script after the dialogue loop has been left normally
PostLoop ==
  {"terminated", "eval1_send", "eval1_wait", "eval1_show", "eval2_send",
   "eval2_wait", "eval2_show", "eval3_send", "eval3_wait", "eval3_show",
   "done"}

\* C1: every request of the dialogue loop is the framing message, then the
\* history as it stood when the request was sent (the first 2i-1 messages
\* for the i-th request), then the reminder message
C1_RequestShape ==
  \A i \in 1..Len(requests) :
    LET r == requests[i]
    IN  /\ Len(r) = 2 * i + 1
        /\ r[1] = [role |-> "system", content |-> patient.framing]
        /\ r[Len(r)] = [role |-> "user", content |-> patient.reminders]
        /\ SubSeq(r, 2, Len(r) - 1) = SubSeq(talk_hx, 1, 2 * i - 1)

C1_Witness == Len(requests) >= 2 /\ pc = "await_input"

\* C2: after a failed generation request of a turn the history equals the
\* history before the user's input of that turn was processed
C2_HistoryUntouchedByFailedTurn ==
  (error = "APIError" /\ eval_requests = << >>) => talk_hx = hx_before

\* C3: a failed generation request of a turn takes the controller back to
\* awaiting input
C3_FailureReturnsToAwaitingInput ==
  [][(pc = "generating" /\ error' = "APIError") => pc' = "await_input"]_vars

\* C4: the history starts empty, only grows at its end, gains the user's
\* input followed by the reply in every completed turn, and is an even-length
\* alternation user, assistant, ... whenever the loop awaits input
C4_HistoryAppendOnly ==
  /\ [](stdout = << InputPrompt0 >> /\ pc = "await_input" => talk_hx = << >>)
  /\ [](pc = "await_input" => Len(talk_hx) % 2 = 0)
  /\ [](\A i \in 1..Len(talk_hx) :
          talk_hx[i].role = IF i % 2 = 1 THEN "user" ELSE "assistant")
  /\ [][IsPrefix(talk_hx, talk_hx')]_vars
  /\ [][(pc # "await_input" /\ pc' = "await_input") =>
          talk_hx' = hx_before \o << [role |-> "user", content |-> user_input],
                                     [role |-> "assistant", content |-> reply] >>]_vars

C4_Witness == pc = "await_input" /\ Len(talk_hx) = 4

\* C5: an input that normalizes to the keyword takes the controller to
\* TERMINATED; from then on the history is the one before that input and is
\* never changed and no dialogue request is added; the script is not stuck
\* there: its next step renders the transcript of that history (empty for
\* the empty history) and the step after it sends the first evaluation
\* request, which carries that transcript
C5_Termination ==
  /\ [][(pc = "await_input" /\ pc' # "await_input"
           /\ Normalize(user_input') = end_keyword) => pc' = "terminated"]_vars
  /\ [](pc \in PostLoop =>
          talk_hx = hx_before /\ Len(talk_hx) = 2 * Len(requests))
  /\ [][(pc \in PostLoop) => (talk_hx' = talk_hx /\ requests' = requests)]_vars
  /\ [](pc \in {"terminated", "eval1_send"} => ENABLED <<Next>>_vars)
  /\ [][(pc = "terminated") =>
          (pc' = "eval1_send" /\ transcript' = get_transcript(talk_hx))]_vars
  /\ [][(pc = "eval1_send") =>
          (pc' = "eval1_wait" /\ Len(eval_requests') = 1)]_vars
  /\ [](pc \in PostLoop \ {"terminated"} =>
          /\ transcript = get_transcript(talk_hx)
          /\ (talk_hx = << >> => transcript = << >>))
  /\ [](Len(eval_requests) >= 1 => eval_requests[1][2].content = transcript)

C5_Witness == pc = "done" /\ talk_hx = << >> /\ Len(eval_requests) = 3

Quotes == {"\"", "'"}

AllIn(s, chars) == \A i \in 1..Len(s) : s[i] \in chars

\* K is k up to letter case
IsCaseVariant(K, k) ==
  Len(K) = Len(k) /\ \A i \in 1..Len(k) : LowerChar(K[i]) = k[i]

\* text is the keyword in any letter case, optionally enclosed in a pair of
\* quotes, optionally padded with whitespace
IsKeywordVariant(text) ==
  \E a \in 0..Len(text), b \in 0..Len(text) :
    /\ a + b <= Len(text)
    /\ AllIn(SubSeq(text, 1, a), Whitespace)
    /\ AllIn(SubSeq(text, Len(text) - b + 1, Len(text)), Whitespace)
    /\ LET core == SubSeq(text, a + 1, Len(text) - b)
       IN  \/ IsCaseVariant(core, end_keyword)
           \/ /\ Len(core) = Len(end_keyword) + 2
              /\ core[1] \in Quotes
              /\ core[Len(core)] = core[1]
              /\ IsCaseVariant(SubSeq(core, 2, Len(core) - 1), end_keyword)

\* text has more characters that are neither quote nor whitespace than the
\* keyword has
HasFurtherChars(text) ==
  Cardinality({i \in 1..Len(text) : text[i] \notin Quotes \cup Whitespace})
    > Len(end_keyword)

\* C6: the keyword in any letter case, optionally quoted and padded, ends the
\* loop; an input with further non-quote, non-whitespace characters runs the
\* loop body
C6_TerminationCheck ==
  /\ pc = "loop_body" => ~IsKeywordVariant(user_input)
  /\ pc = "terminated" => ~HasFurtherChars(user_input)

C6_Witness ==
  /\ pc = "terminated"
  /\ user_input = In_quoted_padded
  /\ \E i \in 1..Len(talk_hx) : talk_hx[i].content = In_twice

\* C7 as stated: the loop ends only on inputs that equal the keyword after
\* case-folding and stripping quotes and whitespace at the two ends
C7_QuotesStrippedAtEndsOnly ==
  pc = "terminated" =>
    StripChars(Lower(user_input), Quotes \cup Whitespace) = end_keyword

\* text with every quote character deleted is the keyword, up to letter
\* case, between leading and trailing whitespace
MatchesIgnoringQuotes(text) ==
  LET u == SelectSeq(text, LAMBDA c : c \notin Quotes)
  IN  \E a \in 0..Len(u) :
        /\ a + Len(end_keyword) <= Len(u)
        /\ AllIn(SubSeq(u, 1, a), Whitespace)
        /\ IsCaseVariant(SubSeq(u, a + 1, a + Len(end_keyword)), end_keyword)
        /\ AllIn(SubSeq(u, a + Len(end_keyword) + 1, Len(u)), Whitespace)

\* C7 amended: an input runs the loop body exactly when, after case-folding,
\* deletion of every quote character and stripping of surrounding
\* whitespace, it differs from the keyword; a quote inside the keyword does
\* not prevent termination
C7_AllQuotesDeleted ==
  pc \in {"loop_body", "terminated"} =>
    (pc = "terminated" <=> MatchesIgnoringQuotes(user_input))

C7_Witness == pc = "terminated" /\ user_input = In_interior
Contains(s, sub) ==
  \E i \in 0..(Len(s) - Len(sub)) : SubSeq(s, i + 1, i + Len(sub)) = sub

\* C8: the evaluation sends three requests, summarize, compare, verdict, each
\* extending the previous one: [eval-framing, transcript], then + [reply 1 as
\* assistant, comparison prompt with the ground-truth summary], then +
\* [reply 2 as assistant, yes/no question]
C8_EvaluationChain ==
  /\ Len(eval_requests) <= 3
  /\ pc = "done" => Len(eval_requests) = 3
  /\ Len(eval_requests) >= 1 =>
       eval_requests[1] = << [role |-> "system", content |-> EvalFramingText],
                             [role |-> "user", content |-> transcript] >>
  /\ Len(eval_requests) >= 2 =>
       LET r == eval_requests[2]
       IN  /\ Len(r) = 4
           /\ SubSeq(r, 1, 2) = eval_requests[1]
           /\ r[3] = [role |-> "assistant", content |-> eval_replies[1]]
           /\ r[4].role = "user"
           /\ Contains(r[4].content, patient.summary)
           /\ r[4].content = ComparePrefix \o patient.summary \o CompareSuffix
  /\ Len(eval_requests) >= 3 =>
       LET r == eval_requests[3]
       IN  /\ Len(r) = 6
           /\ SubSeq(r, 1, 4) = eval_requests[2]
           /\ r[5] = [role |-> "assistant", content |-> eval_replies[2]]
           /\ r[6] = [role |-> "user", content |-> FinalQuestionText]

C8_Witness == pc = "done" /\ Len(eval_requests) = 3 /\ Len(talk_hx) >= 2

EvalHeader(k) ==
  CASE k = 1 -> SummaryHeader [] k = 2 -> EvaluationHeader [] k = 3 -> PassHeader

\* the k-th evaluation reply was printed, unchanged, under its header
Displayed(k) ==
  \E i \in 2..Len(stdout) :
    stdout[i - 1] = EvalHeader(k) /\ stdout[i] = eval_replies[k] \o NL

\* C9: each evaluation reply is printed as received before the next request
\* is sent (the verdict before the script ends), whatever its content, and
\* each step sends one request: a request is sent only once the previous
\* reply has arrived, three in all
C9_EvaluationDisplay ==
  /\ \A k \in 1..3 :
       (Len(eval_requests) > k \/ (k = 3 /\ pc = "done")) => Displayed(k)
  /\ Len(eval_replies) <= Len(eval_requests)
  /\ Len(eval_requests) <= Len(eval_replies) + 1
  /\ Len(eval_requests) <= 3
  /\ pc = "done" => (Len(eval_requests) = 3 /\ Len(eval_replies) = 3)

C9_Witness ==
  pc = "done" /\ Len(eval_replies) = 3 /\ eval_replies[3] = Re_maybe

\* length of the transcript of the first n messages of hx
RECURSIVE TranscriptOffset(_, _)
TranscriptOffset(hx, n) ==
  IF n = 0 THEN 0
  ELSE TranscriptOffset(hx, n - 1) + 9 + Len(hx[n].content) + 2

\* the rendering of "hi" from the user followed by "ok" from the assistant
HiOkTranscript ==
  << "S", "t", "u", "d", "e", "n", "t", ":", " ", "h", "i", "\n",
     "\n", "P", "a", "t", "i", "e", "n", "t", ":", " ", "o", "k", "\n", "\n" >>

C11_FramingSetOutsideHistory ==
  /\ [][patient' = patient]_vars
  /\ [](\A i \in 1..Len(talk_hx) :
          /\ talk_hx[i].role \in {"user", "assistant"}
          /\ talk_hx[i].content \in (IF i % 2 = 1 THEN Inputs ELSE Replies)
          /\ talk_hx[i] # [role |-> "system", content |-> patient.framing]
          /\ talk_hx[i] # [role |-> "user", content |-> patient.reminders])
  /\ [](\A i \in 1..Len(requests) :
          /\ requests[i][1] = [role |-> "system", content |-> patient.framing]
          /\ requests[i][Len(requests[i])] =
               [role |-> "user", content |-> patient.reminders]
          /\ requests[i][1] = requests[1][1]
          /\ requests[i][Len(requests[i])] = requests[1][Len(requests[1])])

C11_Witness == pc = "generating" /\ Len(requests) = 2

\* the lines joined with single spaces
RECURSIVE JoinWithSpaces(_)
JoinWithSpaces(lines) ==
  IF lines = << >> THEN << >>
  ELSE IF Len(lines) = 1 THEN lines[1]
  ELSE lines[1] \o << " " >> \o JoinWithSpaces(Tail(lines))

\* the chunk without its last character
DropLast(chunk) == SubSeq(chunk, 1, Len(chunk) - 1)

\* C17: in every turn the user line is recorded, then the request is sent,
\* then the reply is recorded, then the reply is displayed, then the next
\* input is read; the n-th request carries 2n-1 history messages, the last
\* of them the user line of that turn
C17_TurnOrder ==
  LET recorded_user == (Len(talk_hx) + 1) \div 2
      recorded_asst == Len(talk_hx) \div 2
      sent == Len(requests)
      labels == {i \in 1..Len(stdout) : stdout[i] = PatientLabel}
      shown == Cardinality(labels)
  IN  /\ recorded_user >= sent
      /\ sent >= recorded_asst
      /\ recorded_asst >= shown
      /\ shown >= recorded_user - 1
      /\ pc = "await_input" => shown = recorded_user
      /\ \A n \in 1..sent :
           /\ Len(requests[n]) = 2 * n + 1
           /\ requests[n][2 * n] = talk_hx[2 * n - 1]
           /\ requests[n][2 * n].role = "user"
      /\ pc = "generating" =>
           requests[sent][2 * sent] = [role |-> "user", content |-> user_input]
      /\ (pc = "await_input" /\ shown > 0) =>
           LET last == CHOOSE i \in labels : \A j \in labels : j <= i
               printed == [k \in 1..(Len(stdout) - last - 1) |->
                             DropLast(stdout[last + k])]
           IN  /\ stdout[Len(stdout)] = InputPrompt
               /\ JoinWithSpaces(printed) = reply
               /\ talk_hx[Len(talk_hx)] =
                    [role |-> "assistant", content |-> reply]

C17_Witness == pc = "await_input" /\ Len(requests) = 2 /\ reply = Re_wrap

\* C18: a ValueError raised while the reply is wrapped for display takes the
\* controller back to awaiting input
C18_WrapFailureReturnsToAwaitingInput ==
  [][(pc = "display" /\ error' = "ValueError") => pc' = "await_input"]_vars

SplitEnded == pc \in {"split_returned", "split_raised"}

\* C12: no line returned by split_string is longer than LINE_LENGTH
C12_LinesWithinWidth ==
  pc = "split_returned" =>
    \A i \in 1..Len(ret_strings) : Len(ret_strings[i]) <= LINE_LENGTH_arg

C12_Witness ==
  /\ pc = "split_returned"
  /\ Len(ret_strings) >= 2
  /\ \E i \in 1..Len(ret_strings) : Len(ret_strings[i]) = LINE_LENGTH_arg - 1

\* s has a run of n or more characters, at least one, none of them in seps
HasRun(s, n, seps) ==
  \E i \in 1..Len(s), j \in 1..Len(s) :
    /\ i <= j
    /\ j - i + 1 >= n
    /\ \A k \in i..j : s[k] \notin seps

\* every run of whitespace of s replaced by one space
RECURSIVE CollapseWhitespace(_)
CollapseWhitespace(s) ==
  IF s = << >> THEN << >>
  ELSE IF Head(s) \in Whitespace
    THEN IF Len(s) > 1 /\ s[2] \in Whitespace
           THEN CollapseWhitespace(Tail(s))
           ELSE << " " >> \o CollapseWhitespace(Tail(s))
    ELSE << Head(s) >> \o CollapseWhitespace(Tail(s))

\* s starts and ends with a character that is not whitespace
WordAtBothEnds(s) ==
  s # << >> /\ s[1] \notin Whitespace /\ s[Len(s)] \notin Whitespace

\* C13 as stated, for texts that start and end with a word: when every
\* whitespace-delimited token is shorter than the width, split_string
\* returns, and its lines joined with spaces are the text with its
\* whitespace runs collapsed to single spaces
C13_CollapsedRoundTrip ==
  (SplitEnded /\ WordAtBothEnds(l_arg)
     /\ ~HasRun(l_arg, LINE_LENGTH_arg, Whitespace)) =>
    /\ pc = "split_returned"
    /\ JoinWithSpaces(ret_strings) = CollapseWhitespace(l_arg)

\* C13 amended: when the width is at least 1 and every run of non-space
\* characters is shorter than the width, split_string returns, and its
\* lines joined with spaces are the text itself
C13_SpaceTokensRoundTrip ==
  (SplitEnded /\ LINE_LENGTH_arg >= 1
     /\ ~HasRun(l_arg, LINE_LENGTH_arg, {" "})) =>
    /\ pc = "split_returned"
    /\ error = "none"
    /\ JoinWithSpaces(ret_strings) = l_arg

C13_Witness ==
  /\ pc = "split_returned"
  /\ l_arg = << "a", " ", " ", "a" >>
  /\ LINE_LENGTH_arg = 2

\* C14: when some whitespace-delimited token is as long as the width or
\* longer, split_string raises ValueError; the lines cut before that end at
\* spaces of the text, no word is cut
C14_RaisesOnLongToken ==
  (SplitEnded /\ HasRun(l_arg, LINE_LENGTH_arg, Whitespace)) =>
    /\ pc = "split_raised"
    /\ error = "ValueError"
    /\ JoinWithSpaces(Append(ret_strings, remaining)) = l_arg

C14_Witness ==
  /\ pc = "split_raised"
  /\ Len(ret_strings) >= 1
  /\ HasRun(l_arg, LINE_LENGTH_arg, Whitespace)
  /\ LINE_LENGTH_arg >= 2

\* C15 as stated: no line returned for a non-empty text is empty; the empty
\* text gives exactly one empty line
C15_NoEmptyLine ==
  /\ (pc = "split_returned" /\ l_arg # << >>) =>
       \A i \in 1..Len(ret_strings) : Len(ret_strings[i]) >= 1
  /\ (SplitEnded /\ l_arg = << >> /\ LINE_LENGTH_arg >= 1) =>
       (pc = "split_returned" /\ ret_strings = << << >> >>)

\* s neither starts nor ends with a space and has no two spaces in a row
SingleSpaced(s) ==
  /\ s # << >>
  /\ s[1] # " "
  /\ s[Len(s)] # " "
  /\ \A i \in 1..(Len(s) - 1) : ~(s[i] = " " /\ s[i + 1] = " ")

\* C15 amended: no line returned is empty when the text is non-empty, does
\* not start or end with a space and has no two spaces in a row; the empty
\* text gives exactly one empty line for a width of at least 1
C15_NoEmptyLineWhenSingleSpaced ==
  /\ (pc = "split_returned" /\ SingleSpaced(l_arg)) =>
       \A i \in 1..Len(ret_strings) : Len(ret_strings[i]) >= 1
  /\ (SplitEnded /\ l_arg = << >> /\ LINE_LENGTH_arg >= 1) =>
       (pc = "split_returned" /\ ret_strings = << << >> >>)

C15_Witness ==
  /\ pc = "split_returned"
  /\ l_arg = << "a", " ", "a", "a" >>
  /\ LINE_LENGTH_arg = 3
  /\ Len(ret_strings) = 2

\* C19: split_string ends: an iteration that does not raise leaves a
\* strictly shorter remaining text, the loop is never stuck, and the number
\* of lines cut is bounded by the length of the text
C19_SplitTerminates ==
  /\ [][(pc = "split_loop" /\ pc' = "split_loop") =>
          Len(remaining') < Len(remaining)]_vars
  /\ [][(pc = "split_loop") =>
          (pc' \in {"split_loop", "split_returned", "split_raised"})]_vars
  /\ [](pc \in {"call_split_string", "split_loop"} => ENABLED <<WrapNext>>_vars)
  /\ [](Len(remaining) <= Len(l_arg))
  /\ [](pc = "split_loop" => Len(ret_strings) + Len(remaining) <= Len(l_arg))

C19_Witness ==
  pc = "split_returned" /\ Len(ret_strings) = 3 /\ LINE_LENGTH_arg >= 1

\* number of characters in the lines
RECURSIVE TotalLength(_)
TotalLength(lines) ==
  IF lines = << >> THEN 0 ELSE Len(Head(lines)) + TotalLength(Tail(lines))

\* C20: the lines returned by split_string, joined with single spaces, are
\* the text, character for character: every break took out one space and
\* nothing else
C20_ExactRoundTrip ==
  pc = "split_returned" =>
    /\ JoinWithSpaces(ret_strings) = l_arg
    /\ TotalLength(ret_strings) + Len(ret_strings) - 1 = Len(l_arg)
    /\ Cardinality({i \in 1..Len(l_arg) : l_arg[i] = " "}) >=
         Len(ret_strings) - 1

C20_Witness ==
  /\ pc = "split_returned"
  /\ Len(ret_strings) >= 3
  /\ \E i \in 1..Len(ret_strings) : ret_strings[i] = << >>
  /\ \E i \in 1..Len(l_arg) : l_arg[i] = "\t"

\* C16: choose_patient returns a scenario of the list; when some scenario
\* has a positive weight, the one returned has a positive weight and nothing
\* is raised; with weights 1, 0, 0, ... the first scenario is returned
C16_WeightedSelection ==
  LET n == Len(patients_arg)
      some_positive == \E i \in 1..n : patients_arg[i].prob_wt > 0
  IN  /\ pc = "chosen" =>
           /\ \E i \in 1..n : patients_arg[i] = patient
           /\ some_positive => patient.prob_wt > 0
           /\ (/\ n >= 1
               /\ patients_arg[1].prob_wt = 1
               /\ \A i \in 2..n : patients_arg[i].prob_wt = 0)
                => patient = patients_arg[1]
      /\ pc = "choose_raised" => ~some_positive

C16_Witness ==
  /\ pc = "chosen"
  /\ Len(patients_arg) = 3
  /\ patients_arg[1].prob_wt = 1
  /\ patients_arg[2].prob_wt = 0
  /\ patients_arg[3].prob_wt = 0
  /\ patient = patients_arg[1]

\* the loop of split_string, step by step, ends as SplitLoop does
WrapAgreesWithSplitLoop ==
  LET r == split_string(l_arg, LINE_LENGTH_arg)
  IN  /\ pc = "split_returned" => (~r.raised /\ r.lines = ret_strings)
      /\ pc = "split_raised" => (r.raised /\ r.lines = ret_strings)
      /\ pc = "split_loop" =>
           SplitLoop(ret_strings, remaining, LINE_LENGTH_arg) = r

====
